---------------------------- MODULE Spec2Model ----------------------------
(***************************************************************************)
(* Model of code/analysis_functions.py: the rolling feature extractor      *)
(* extract_features_df and the day analyzer analyze_day.                    *)
(*                                                                         *)
(* Numbers.  Input values are integers or missing.  A cell of a table is a *)
(* record [k, n, d, r]:                                                    *)
(*   k = "nan"  a missing value (NaN)                                      *)
(*   k = "inf"  +infinity (only |x / 0| with x # 0 produces it)            *)
(*   k = "num"  the finite number n/d when r = FALSE, and the number       *)
(*              sign(n) * sqrt(|n| / d) when r = TRUE (standard            *)
(*              deviations, z-scores and correlations are kept by their    *)
(*              signed square, which is exact)                             *)
(*   k = "fin"  a finite number whose magnitude is not tracked (vol_ewma)  *)
(* Fractions are not reduced; RatEq compares them by cross multiplication. *)
(*                                                                         *)
(* Time.  A timestamp is the number of hours since a Monday 00:00 of the   *)
(* target timezone.                                                        *)
(***************************************************************************)
EXTENDS Integers, Sequences, FiniteSets, TLC

\* control      where the call stands ("start" .. "done", or "raised")
\* df, cfg      the arguments: the raw table and the parameters
\* df_hist      the history slice of df
\* resid        the residual table (the input of extract_features_df)
\* X            the feature table
\* day_features the rows of the table analyze_day returns (rolling features
\*              and calendar columns), out_index their timestamps and
\*              out_daycols its day-level columns (one value per column,
\*              the same on every row)
\* steps_run    the computation steps that have run
VARIABLES control, df, cfg, df_hist, resid, X, day_features, steps_run, out_index, out_daycols

vars == <<control, df, cfg, df_hist, resid, X, day_features, steps_run, out_index, out_daycols>>

(***************************************************************************)
(* Cells                                                                   *)
(***************************************************************************)
NaN == [k |-> "nan", n |-> 0, d |-> 1, r |-> FALSE]

Inf == [k |-> "inf", n |-> 1, d |-> 1, r |-> FALSE]

Fin == [k |-> "fin", n |-> 0, d |-> 1, r |-> FALSE]

Num(n, d) == [k |-> "num", n |-> n, d |-> d, r |-> FALSE]

Root(n, d) == [k |-> "num", n |-> n, d |-> d, r |-> TRUE]

IsNaN(c) == c.k = "nan"

IsNum(c) == c.k = "num"

Abs(x) == IF x < 0 THEN -x ELSE x

Sign(x) == IF x < 0 THEN -1 ELSE IF x > 0 THEN 1 ELSE 0

\* Equality of two cells as numbers (NaN equals nothing, as in the code's floats).
RatEq(a, b) ==
    \/ a.k = "inf" /\ b.k = "inf"
    \/ a.k = "num" /\ b.k = "num" /\ a.r = b.r /\ a.n * b.d = b.n * a.d

\* f[a] + ... + f[b], summed by halves
RECURSIVE SumOver(_, _, _)
SumOver(f, a, b) ==
    IF a > b THEN 0
    ELSE IF a = b THEN f[a]
    ELSE LET m == (a + b) \div 2
         IN  SumOver(f, a, m) + SumOver(f, m + 1, b)

\* The sequence <<f[a], ..., f[b]>>, built as a concrete tuple
RECURSIVE ColRange(_, _, _)
ColRange(f, a, b) ==
    IF a > b THEN <<>>
    ELSE IF a = b THEN <<f[a]>>
    ELSE LET m == (a + b) \div 2
         IN  ColRange(f, a, m) \o ColRange(f, m + 1, b)

ColTo(f, n) == ColRange(f, 1, n)

(***************************************************************************)
(* Program constants                                                       *)
(***************************************************************************)
LAG_DAY == 24

LAG_WEEK == 168

Z_THR == 3

\* 1.4826 as MAD_SCALE_NUM / MAD_SCALE_DEN
MAD_SCALE_NUM == 14826

MAD_SCALE_DEN == 10000

HOURS_PER_DAY == 24

DAYS_PER_WEEK == 7

(***************************************************************************)
(* Rolling windows: s.rolling(w) has min_periods = w, so a window          *)
(* statistic at row i is defined only when rows i-w+1..i exist and none is *)
(* missing.  rolling(0) is accepted by pandas and yields missing values.   *)
(***************************************************************************)
WinFull(s, w, i) ==
    /\ w >= 1
    /\ i >= w
    /\ \A j \in (i - w + 1)..i : IsNum(s[j])

WinSum(s, w, i) == SumOver([j \in (i - w + 1)..i |-> s[j].n], i - w + 1, i)

WinSumSq(s, w, i) == SumOver([j \in (i - w + 1)..i |-> s[j].n * s[j].n], i - w + 1, i)

\* w * (w-1) * variance of the window = w * sum(x^2) - sum(x)^2
WinDev(s, w, i) == w * WinSumSq(s, w, i) - WinSum(s, w, i) * WinSum(s, w, i)

\* Mutant: the window is taken to be full one row late
roll_mean_late(s, w, i) ==
    IF WinFull(s, w, i) /\ i > w THEN Num(WinSum(s, w, i), w) ELSE NaN

\* roll.mean()
roll_mean(s, w, i) ==
    IF WinFull(s, w, i) THEN Num(WinSum(s, w, i), w) ELSE NaN

\* roll.std(): sample standard deviation (ddof = 1), missing for one observation
roll_std(s, w, i) ==
    IF WinFull(s, w, i) /\ w > 1
    THEN Root(WinDev(s, w, i), w * (w - 1))
    ELSE NaN

\* The k-th smallest (k = 0 ..) of the integers xs[a..b]
Kth(xs, a, b, k) ==
    LET vals == {xs[j] : j \in a..b}
    IN  CHOOSE v \in vals :
            /\ Cardinality({j \in a..b : xs[j] < v}) <= k
            /\ Cardinality({j \in a..b : xs[j] <= v}) > k

\* Twice the median of the integers xs[a..b] (np.median averages the two
\* middle order statistics of an even count)
Median2(xs, a, b) ==
    LET m == b - a + 1
    IN  Kth(xs, a, b, (m - 1) \div 2) + Kth(xs, a, b, m \div 2)

\* 100 times the q-quantile (q in percent) of xs[a..b], linear interpolation
\* between order statistics: position (m-1)*q/100
Quantile100(xs, a, b, q) ==
    LET m  == b - a + 1
        p  == (m - 1) * q
        lo == p \div 100
        fr == p % 100
        hi == IF fr = 0 THEN lo ELSE lo + 1
    IN  100 * Kth(xs, a, b, lo) + fr * (Kth(xs, a, b, hi) - Kth(xs, a, b, lo))

Ints(s) == [j \in 1..Len(s) |-> s[j].n]

\* roll.median()
roll_median(s, w, i) ==
    IF WinFull(s, w, i) THEN Num(Median2(Ints(s), i - w + 1, i), 2) ELSE NaN

\* roll.apply(lambda x: np.median(np.abs(x - np.median(x)))): with M twice the
\* median, |x - M/2| = |2x - M| / 2 and the median of those is A2 / 4
roll_mad(s, w, i) ==
    IF WinFull(s, w, i)
    THEN LET M  == Median2(Ints(s), i - w + 1, i)
             dv == [j \in 1..Len(s) |-> Abs(2 * s[j].n - M)]
         IN  Num(Median2(dv, i - w + 1, i), 4)
    ELSE NaN

\* roll.quantile(q), q in percent
roll_quantile(s, w, i, q) ==
    IF WinFull(s, w, i)
    THEN Num(Quantile100(Ints(s), i - w + 1, i, q), 100)
    ELSE NaN

\* a - b on cells holding plain fractions
CellSub(a, b) ==
    IF IsNum(a) /\ IsNum(b) THEN Num(a.n * b.d - b.n * a.d, a.d * b.d) ELSE NaN

CellAbs(a) == IF IsNum(a) THEN [a EXCEPT !.n = Abs(a.n)] ELSE a

\* z = (s - mean) / std at row i, as the signed square of z.
\* (s - mean)^2 / var = (w*s - S)^2 * (w-1) / (w * dev).  A zero std divides
\* 0 by 0 (all values equal the mean), which is NaN.
z_score(s, w, i) ==
    IF ~(IsNum(s[i]) /\ IsNum(roll_std(s, w, i)))
    THEN NaN
    ELSE LET dev == WinDev(s, w, i)
             num == w * s[i].n - WinSum(s, w, i)
         IN  IF dev = 0
             THEN IF num = 0 THEN NaN ELSE Inf
             ELSE Root(Sign(num) * num * num * (w - 1), w * dev)

\* x > z_thr for a cell of the z_abs column (both sides are >= 0)
ExceedsThr(z) ==
    \/ z.k = "inf"
    \/ z.k = "num" /\ z.n > Z_THR * Z_THR * z.d

\* Mutant: the rate is taken over the z-scores present in the window (a
\* second window with min_periods = 1)
anomaly_rate_min1(zabs, w, i) ==
    IF w >= 1 /\ i >= w /\ \E j \in (i - w + 1)..i : ~IsNaN(zabs[j])
    THEN Num(Cardinality({j \in (i - w + 1)..i : ExceedsThr(zabs[j])}), w)
    ELSE NaN

\* z.abs().rolling(w).apply(lambda x: (x > z_thr).mean()): a second window of
\* w rows over the z_abs column
anomaly_rate(zabs, w, i) ==
    IF w >= 1 /\ i >= w /\ \A j \in (i - w + 1)..i : ~IsNaN(zabs[j])
    THEN Num(Cardinality({j \in (i - w + 1)..i : ExceedsThr(zabs[j])}), w)
    ELSE NaN

\* rz = (s - roll.median()) / (1.4826 * mad), then abs().
\* (s - M/2) / (1.4826 * A/4) = (2s - M) * 2 * 10000 / (14826 * A);
\* a zero mad divides by 0.0: 0/0 is NaN, x/0 is +-inf
rz_abs(s, w, i) ==
    LET med == roll_median(s, w, i)
        mad == roll_mad(s, w, i)
    IN  IF ~(IsNum(s[i]) /\ IsNum(med) /\ IsNum(mad))
        THEN NaN
        ELSE LET num == 2 * s[i].n - med.n
             IN  IF mad.n = 0
                 THEN IF num = 0 THEN NaN ELSE Inf
                 ELSE Num(Abs(num) * 2 * MAD_SCALE_DEN, MAD_SCALE_NUM * mad.n)

\* s.sub(s.mean()).abs().ewm(alpha).mean(): missing before the first
\* observation, then carried over missing inputs; all missing when the series
\* has no observation at all
vol_ewma(s, i) ==
    IF \E j \in 1..i : IsNum(s[j]) THEN Fin ELSE NaN

\* pd.Series(x).autocorr(lag): Pearson correlation of the m = w - lag pairs
\* (x[j], x[j-lag]); missing for fewer than two pairs or a constant side
autocorr(s, w, i, lag) ==
    IF ~WinFull(s, w, i) \/ w - lag < 2
    THEN NaN
    ELSE LET m   == w - lag
             lo  == i - w + 1 + lag
             Sa  == SumOver([j \in lo..i |-> s[j].n], lo, i)
             Sb  == SumOver([j \in lo..i |-> s[j - lag].n], lo, i)
             Saa == SumOver([j \in lo..i |-> s[j].n * s[j].n], lo, i)
             Sbb == SumOver([j \in lo..i |-> s[j - lag].n * s[j - lag].n], lo, i)
             Sab == SumOver([j \in lo..i |-> s[j].n * s[j - lag].n], lo, i)
             c   == m * Sab - Sa * Sb
             va  == m * Saa - Sa * Sa
             vb  == m * Sbb - Sb * Sb
         IN  IF va = 0 \/ vb = 0 THEN NaN
             ELSE Root(Sign(c) * c * c, va * vb)

\* Mutant: the shift is one row short
shift_short(s, k, i) == IF i - k + 1 >= 1 THEN s[i - k + 1] ELSE NaN

\* s.shift(k)
shift(s, k, i) == IF i - k >= 1 THEN s[i - k] ELSE NaN

\* s.diff(k) = s - s.shift(k)
diff(s, k, i) == CellSub(s[i], shift(s, k, i))

weekday(t) == (t \div HOURS_PER_DAY) % DAYS_PER_WEEK

hour(t) == t % HOURS_PER_DAY

\* The (weekday, hour) group of row i: the rows of the whole series in the
\* same calendar bucket
Bucket(idx, i) ==
    {j \in 1..Len(idx) : weekday(idx[j]) = weekday(idx[i]) /\ hour(idx[j]) = hour(idx[i])}

\* Mutant: no group_std > 0 guard, so a zero std divides 0 by 0
dow_hour_z_unguarded(idx, s, i) ==
    LET g   == Bucket(idx, i)
        obs == {j \in g : IsNum(s[j])}
        c   == Cardinality(obs)
        gs  == [j \in 1..Len(s) |-> IF j \in obs THEN s[j].n ELSE 0]
        S   == SumOver(gs, 1, Len(s))
        SS  == SumOver([j \in 1..Len(s) |-> gs[j] * gs[j]], 1, Len(s))
        dev == c * SS - S * S
    IN  IF Cardinality(g) > 1
        THEN IF IsNum(s[i]) /\ c > 1 /\ dev > 0
             THEN LET num == c * s[i].n - S
                  IN  Root(Sign(num) * num * num * (c - 1), c * dev)
             ELSE NaN
        ELSE Num(0, 1)

\* dow_hour_z: 0.0 unless the group has more than one row and a standard
\* deviation > 0 (mean and std skip missing values; a std over fewer than
\* two observations is NaN, and NaN > 0 is false)
dow_hour_z(idx, s, i) ==
    LET g   == Bucket(idx, i)
        obs == {j \in g : IsNum(s[j])}
        c   == Cardinality(obs)
        gs  == [j \in 1..Len(s) |-> IF j \in obs THEN s[j].n ELSE 0]
        S   == SumOver(gs, 1, Len(s))
        SS  == SumOver([j \in 1..Len(s) |-> gs[j] * gs[j]], 1, Len(s))
        dev == c * SS - S * S
    IN  IF Cardinality(g) > 1 /\ c > 1 /\ dev > 0
        THEN IF IsNum(s[i])
             THEN LET num == c * s[i].n - S
                  IN  Root(Sign(num) * num * num * (c - 1), c * dev)
             ELSE NaN
        ELSE Num(0, 1)


(***************************************************************************)
(* extract_features_df                                                     *)
(* A table is [idx |-> timestamps, cols |-> [name |-> column of cells]].   *)
(***************************************************************************)
\* The loop body for one column: the feature frame f of series s
series_features(idx, s, w) ==
    LET n     == Len(s)
        means == ColTo([j \in 1..n |-> roll_mean(s, w, j)], n)
        zabs  == ColTo([j \in 1..n |-> CellAbs(z_score(s, w, j))], n)
    IN  [i \in 1..n |->
            LET q25 == roll_quantile(s, w, i, 25)
                q75 == roll_quantile(s, w, i, 75)
                std == roll_std(s, w, i)
            IN  [mean         |-> means[i],
                 std          |-> std,
                 mad          |-> roll_mad(s, w, i),
                 q25          |-> q25,
                 q75          |-> q75,
                 iqr          |-> CellSub(q75, q25),
                 z_abs        |-> zabs[i],
                 anomaly_rate |-> anomaly_rate(zabs, w, i),
                 rz_abs       |-> rz_abs(s, w, i),
                 vol_rolling  |-> std,
                 vol_ewma     |-> vol_ewma(s, i),
                 acf1         |-> autocorr(s, w, i, 1),
                 acf2         |-> autocorr(s, w, i, 2),
                 lag24        |-> shift(s, LAG_DAY, i),
                 lag168       |-> shift(s, LAG_WEEK, i),
                 lag24_delta  |-> diff(s, LAG_DAY, i),
                 lag168_delta |-> diff(s, LAG_WEEK, i),
                 dow_hour_z   |-> dow_hour_z(idx, s, i),
                 mean_shift   |-> CellAbs(diff(means, 1, i))]]

\* s.rolling(w) raises ValueError for a negative window
rolling_raises(w) == w < 0

\* The feature table: one frame per column, on the shared index
extract_features_df(t, w) ==
    [idx |-> t.idx, cols |-> [c \in DOMAIN t.cols |-> series_features(t.idx, t.cols[c], w)]]

EmptyTable == [idx |-> <<>>, cols |-> <<>>]

(***************************************************************************)
(* Inputs                                                                  *)
(***************************************************************************)
\* Lengths of the series tried: a short one and one longer than a week
ShortLen == 9

LongTail == 9

LongLen == LAG_WEEK + LongTail

\* Largest small window tried; BigW is a window with 2w-2 > LAG_WEEK
MaxW == 4

Patterns == {"flat", "noise", "spike", "weekly", "cycle"}

\* Value of row j (timestamp t) of a pattern; all within -2..2
PatVal(p, j, t) ==
    CASE p = "flat"   -> 0
      [] p = "noise"  -> ((j * j + j \div 3) % 5) - 2
      [] p = "spike"  -> IF j % 5 = 0 THEN 2 ELSE 0
      [] p = "weekly" -> (hour(t) % 3) - 1
      [] p = "cycle"  -> <<0, 1, -1, 2, -2>>[(j % 5) + 1]

\* An hourly index of n rows from hour t0, with gapLen hours left out after
\* row gapAt (gapAt = 0: no gap)
MkIndex(n, t0, gapAt, gapLen) ==
    [j \in 1..n |-> t0 + j - 1 + (IF gapAt > 0 /\ j > gapAt THEN gapLen ELSE 0)]

\* A column over idx: pattern p, missing at the rows of holes
MkSeries(idx, p, holes) ==
    [j \in 1..Len(idx) |-> IF j \in holes THEN NaN ELSE Num(PatVal(p, j, idx[j]), 1)]

DefaultCfg == [w |-> 24, day |-> 0, history_hours |-> 720,
               quantiles |-> <<10, 50, 90>>, spike_pctl |-> 95]

(***************************************************************************)
(* SpecExtract: extract_features_df called directly on a one-column table  *)
(***************************************************************************)
ExtractWs == 0..MaxW

ExtractHoles(n) == {{}, {n - 2}, {3, n}}

InitExtract ==
    /\ control = "call"
    /\ \E n \in {ShortLen, LongLen}, p \in Patterns, g \in {0, 5},
          w \in ExtractWs \cup {-1} :
        \E h \in ExtractHoles(n) :
          LET idx == MkIndex(n, 0, g, 3)
          IN  /\ resid = [idx |-> idx, cols |-> [c \in {"a"} |-> MkSeries(idx, p, h)]]
              /\ cfg = [DefaultCfg EXCEPT !.w = w]
    /\ df = EmptyTable
    /\ df_hist = EmptyTable
    /\ X = EmptyTable
    /\ day_features = <<>>
    /\ out_index = <<>>
    /\ out_daycols = <<>>
    /\ steps_run = {}

ExtractCall ==
    /\ control = "call"
    /\ IF rolling_raises(cfg.w)
       THEN /\ control' = "raised"
            /\ X' = X
       ELSE /\ control' = "ret"
            /\ X' = extract_features_df(resid, cfg.w)
    /\ UNCHANGED <<df, cfg, df_hist, resid, day_features, steps_run, out_index, out_daycols>>

NextExtract == ExtractCall

SpecExtract == InitExtract /\ [][NextExtract]_vars


(***************************************************************************)
(* analyze_day                                                             *)
(***************************************************************************)
FeatureNames ==
    {"mean", "std", "mad", "q25", "q75", "iqr", "z_abs", "anomaly_rate", "rz_abs",
     "vol_rolling", "vol_ewma", "acf1", "acf2", "lag24", "lag168", "lag24_delta",
     "lag168_delta", "dow_hour_z", "mean_shift"}

day_start(c) == c.day * HOURS_PER_DAY

day_end(c) == day_start(c) + HOURS_PER_DAY

hist_start(c) == day_end(c) - c.history_hours

\* t.loc[lo:hi] on a sorted index: both ends inclusive
Slice(t, lo, hi) ==
    LET a == Cardinality({j \in 1..Len(t.idx) : t.idx[j] < lo}) + 1
        b == Cardinality({j \in 1..Len(t.idx) : t.idx[j] <= hi})
    IN  [idx |-> SubSeq(t.idx, a, b),
         cols |-> [c \in DOMAIN t.cols |-> SubSeq(t.cols[c], a, b)]]

\* s.dropna() as the sequence of the observed integers
ObsInts(col) == Ints(SelectSeq(col, IsNum))

\* The observed integers of column col at the rows with lo <= idx < hi
ObsBetween(idx, col, lo, hi) ==
    LET a == Cardinality({j \in 1..Len(idx) : idx[j] < lo}) + 1
        b == Cardinality({j \in 1..Len(idx) : idx[j] < hi})
    IN  ObsInts(SubSeq(col, a, b))

SeqSum(xs) == SumOver(xs, 1, Len(xs))

SeqMean(xs) == IF Len(xs) > 0 THEN Num(SeqSum(xs), Len(xs)) ELSE NaN

\* A quantile or percentile (in percent) outside [0, 1]
BadQ(q) == q < 0 \/ q > 100

\* The decomposition is external: STL(df_hist[c], period, robust).fit().resid.
\* Its residual is observed - trend - seasonal, so it is missing wherever the
\* observed value is; with a missing input it may instead be missing
\* throughout (mode "all").  The residual values are those of pattern p.
stl_resid(idx, s, p, mode) ==
    LET hasNaN == \E j \in 1..Len(s) : IsNaN(s[j])
    IN  [j \in 1..Len(s) |->
            IF IsNaN(s[j]) \/ (hasNaN /\ mode = "all")
            THEN NaN
            ELSE Num(PatVal(p, j, idx[j]), 1)]

\* The decomposition may fail on a slice shorter than two periods or on one
\* holding a missing value
stl_may_raise(t, period) ==
    \/ Len(t.idx) < 2 * period
    \/ \E c \in DOMAIN t.cols : \E j \in 1..Len(t.idx) : IsNaN(t.cols[c][j])

\* Mutant: dropna(how="all"), a row is dropped only when every cell is missing
RowNotAllMissing(x, i) ==
    \E c \in DOMAIN x.cols : \E f \in FeatureNames : ~IsNaN(x.cols[c][i][f])

\* dropna(): a row is kept when no feature of any column is missing
RowComplete(x, i) ==
    \A c \in DOMAIN x.cols : \A f \in FeatureNames : ~IsNaN(x.cols[c][i][f])

\* X.loc[day_start:day_end].dropna() with the calendar columns added
keep_day(x, c) ==
    LET inDay == [j \in 1..Len(x.idx) |-> j]
        kept  == SelectSeq(inDay,
                     LAMBDA j : /\ x.idx[j] >= day_start(c)
                                /\ x.idx[j] <= day_end(c)
                                /\ RowComplete(x, j))
    IN  [idx  |-> [k \in 1..Len(kept) |-> x.idx[kept[k]]],
         rows |-> [k \in 1..Len(kept) |->
                      [f       |-> [col \in DOMAIN x.cols |-> x.cols[col][kept[k]]],
                       weekday |-> weekday(x.idx[kept[k]]),
                       hour    |-> hour(x.idx[kept[k]])]]]

\* The day-level statistics of one raw column (lines 217-257); s_day is the
\* day slice df.loc[day_start:day_end] and s_hist the history slice, both
\* without their missing values
day_stats(t, hist, col, c) ==
    LET s_day  == ObsInts(Slice(t, day_start(c), day_end(c)).cols[col])
        s_hist == ObsInts(hist.cols[col])
        n      == Len(s_day)
        qv(k)  == IF n > 0 THEN Num(Quantile100(s_day, 1, n, c.quantiles[k]), 100) ELSE NaN
        neg    == IF n > 0 THEN Num(Cardinality({j \in 1..n : s_day[j] < 0}), n) ELSE NaN
        thr    == IF Len(s_hist) > 0
                  THEN Num(Quantile100(s_hist, 1, Len(s_hist), c.spike_pctl), 100)
                  ELSE NaN
        spike  == IF IsNum(thr) /\ n > 0
                  THEN Num(Cardinality({j \in 1..n : s_day[j] * thr.d > thr.n}), n)
                  ELSE NaN
        m      == n - 1
        ramp   == [j \in 1..m |-> s_day[j + 1] - s_day[j]]
        rS     == SeqSum(ramp)
        rSS    == SumOver([j \in 1..m |-> ramp[j] * ramp[j]], 1, m)
        l24    == SeqMean(ObsBetween(t.idx, t.cols[col],
                      day_start(c) - LAG_DAY, day_end(c) - LAG_DAY))
        l168   == SeqMean(ObsBetween(t.idx, t.cols[col],
                      day_start(c) - LAG_WEEK, day_end(c) - LAG_WEEK))
        mean   == SeqMean(s_day)
    IN  [day_mean      |-> mean,
         day_min       |-> IF n > 0 THEN Num(Kth(s_day, 1, n, 0), 1) ELSE NaN,
         day_max       |-> IF n > 0 THEN Num(Kth(s_day, 1, n, n - 1), 1) ELSE NaN,
         day_qa        |-> qv(1),
         day_qb        |-> qv(2),
         day_qc        |-> qv(3),
         neg_share     |-> neg,
         spike_share   |-> spike,
         ramp_mean     |-> IF m >= 1 THEN Num(rS, m) ELSE NaN,
         ramp_std      |-> IF m >= 2 THEN Root(m * rSS - rS * rS, m * (m - 1)) ELSE NaN,
         ramp_max_abs  |-> IF m >= 1
                           THEN Num(Kth([j \in 1..m |-> Abs(ramp[j])], 1, m, m - 1), 1)
                           ELSE NaN,
         lag24_mean    |-> l24,
         lag168_mean   |-> l168,
         day_vs_lag24  |-> CellSub(mean, l24),
         day_vs_lag168 |-> CellSub(mean, l168)]

\* Series.quantile raises ValueError for a quantile outside [0, 1]; it is
\* only called on a non-empty series (lines 220 and 223)
day_stats_raises(t, hist, c) ==
    \E col \in DOMAIN t.cols :
        \/ /\ Len(ObsInts(Slice(t, day_start(c), day_end(c)).cols[col])) > 0
           /\ \E k \in 1..3 : BadQ(c.quantiles[k])
        \/ /\ Len(ObsInts(hist.cols[col])) > 0
           /\ BadQ(c.spike_pctl)

(***************************************************************************)
(* Inputs of analyze_day                                                   *)
(***************************************************************************)
STL_PERIOD == 24

\* Rows of the raw table after the end of the eighth day (hour 192 on)
DfTail == 3

DfLen == LAG_WEEK + HOURS_PER_DAY + DfTail

\* A window with 2w - 2 > LAG_WEEK
BigW == 86

Day7 == [j \in 1..DfLen |-> j - 1 >= LAG_WEEK /\ j - 1 <= LAG_WEEK + HOURS_PER_DAY]

DfKinds == {"one", "hole", "two", "b_empty", "late", "ends_at_midnight"}

MkDf(kind) ==
    LET n   == IF kind = "ends_at_midnight" THEN LAG_WEEK + HOURS_PER_DAY
               ELSE IF kind = "late" THEN DfLen - HOURS_PER_DAY
               ELSE DfLen
        t0  == IF kind = "late" THEN HOURS_PER_DAY ELSE 0
        idx == MkIndex(n, t0, 0, 0)
        a   == MkSeries(idx, "noise", IF kind = "hole" THEN {LAG_WEEK + 10} ELSE {})
        b   == MkSeries(idx, "spike",
                   IF kind = "b_empty" THEN {j \in 1..n : Day7[j]} ELSE {})
    IN  [idx  |-> idx,
         cols |-> IF kind \in {"two", "b_empty"}
                  THEN [c \in {"a", "b"} |-> IF c = "a" THEN a ELSE b]
                  ELSE [c \in {"a"} |-> a]]

ValidCfgs ==
    {[DefaultCfg EXCEPT !.w = w, !.day = d, !.history_hours = h] :
        w \in {3, MaxW}, d \in {3, 7, 8}, h \in {100, LAG_WEEK + 1, 720}}
    \cup {[DefaultCfg EXCEPT !.w = BigW, !.day = 7]}

InvalidCfgs ==
    UNION {{[DefaultCfg EXCEPT !.w = -1, !.day = d],
            [DefaultCfg EXCEPT !.w = 0, !.day = d],
            [DefaultCfg EXCEPT !.w = MaxW, !.day = d, !.quantiles = <<10, 50, 150>>],
            [DefaultCfg EXCEPT !.w = MaxW, !.day = d, !.spike_pctl = -5]} : d \in {3, 7}}

\* Non-positive window, or a quantile or the spike percentile outside [0, 1]
InvalidCfg(c) ==
    \/ c.w <= 0
    \/ \E k \in 1..3 : c.quantiles[k] < 0 \/ c.quantiles[k] > 100
    \/ c.spike_pctl < 0 \/ c.spike_pctl > 100

ResidPatterns == {"noise", "cycle"}

Init ==
    /\ control = "start"
    /\ df \in {MkDf(k) : k \in DfKinds}
    /\ cfg \in ValidCfgs \cup InvalidCfgs
    /\ df_hist = EmptyTable
    /\ resid = EmptyTable
    /\ X = EmptyTable
    /\ day_features = <<>>
    /\ out_index = <<>>
    /\ out_daycols = <<>>
    /\ steps_run = {}

\* Lines 178-193: normalise, day bounds, history slice
SliceHistory ==
    /\ control = "start"
    /\ df_hist' = Slice(df, hist_start(cfg), day_end(cfg))
    /\ steps_run' = steps_run \cup {"slice"}
    /\ control' = "stl"
    /\ UNCHANGED <<df, cfg, resid, X, day_features, out_index, out_daycols>>

\* Lines 195-200: the residual of every column
Decompose ==
    /\ control = "stl"
    /\ steps_run' = steps_run \cup {"stl"}
    /\ \/ /\ stl_may_raise(df_hist, STL_PERIOD)
          /\ control' = "raised"
          /\ resid' = resid
       \/ /\ \E p \in ResidPatterns, mode \in {"local", "all"} :
                 resid' = [idx  |-> df_hist.idx,
                           cols |-> [c \in DOMAIN df_hist.cols |->
                                        stl_resid(df_hist.idx, df_hist.cols[c], p, mode)]]
          /\ control' = "extract"
    /\ UNCHANGED <<df, cfg, df_hist, X, day_features, out_index, out_daycols>>

\* Line 203: X = extract_features_df(resid, w=w)
Extract ==
    /\ control = "extract"
    /\ steps_run' = steps_run \cup {"features"}
    /\ IF rolling_raises(cfg.w)
       THEN /\ control' = "raised"
            /\ X' = X
       ELSE /\ control' = "keep"
            /\ X' = extract_features_df(resid, cfg.w)
    /\ UNCHANGED <<df, cfg, df_hist, resid, day_features, out_index, out_daycols>>

\* Lines 205-213: the target day's complete rows and the calendar columns
KeepDay ==
    /\ control = "keep"
    /\ steps_run' = steps_run \cup {"keep"}
    /\ day_features' = keep_day(X, cfg).rows
    /\ out_index' = keep_day(X, cfg).idx
    /\ control' = "daystats"
    /\ UNCHANGED <<df, cfg, df_hist, resid, X, out_daycols>>

\* Lines 215-257 and the return: the day-level columns, when a row is left
DayStats ==
    /\ control = "daystats"
    /\ steps_run' = steps_run \cup {"daystats"}
    /\ IF day_features = <<>>
       THEN /\ control' = "done"
            /\ out_daycols' = out_daycols
       ELSE IF day_stats_raises(df, df_hist, cfg)
       THEN /\ control' = "raised"
            /\ out_daycols' = out_daycols
       ELSE /\ control' = "done"
            /\ out_daycols' = [c \in DOMAIN df.cols |-> day_stats(df, df_hist, c, cfg)]
    /\ UNCHANGED <<df, cfg, df_hist, resid, X, day_features, out_index>>

Next == SliceHistory \/ Decompose \/ Extract \/ KeepDay \/ DayStats

Spec == Init /\ [][Next]_vars

(***************************************************************************)
(* Claims about extract_features_df (checked under SpecExtract)            *)
(***************************************************************************)
\* The input series and its feature frame once the call has returned
InS == resid.cols["a"]

OutF == X.cols["a"]

Returned == control = "ret"

\* Rows i-w+1..i exist and hold no missing input value
InputsOK(s, w, i) == w >= 1 /\ i >= w /\ \A j \in (i - w + 1)..i : s[j].k = "num"

\* Rows a..b do not all hold the same value
NonConst(s, a, b) == \E j \in a..b, k \in a..b : s[j].n # s[k].n

\* The statistic of a column is well-posed on the window ending at row i
WellPosed(col, s, w, i) ==
    /\ InputsOK(s, w, i)
    /\ CASE col \in {"mean", "mad", "q25", "q75", "iqr"} -> TRUE
         [] col \in {"std", "vol_rolling"} -> w >= 2
         [] col = "z_abs"  -> w >= 2 /\ NonConst(s, i - w + 1, i)
         [] col = "rz_abs" -> OutF[i].mad.n # 0
         [] col = "acf1"   -> w >= 3 /\ NonConst(s, i - w + 2, i) /\ NonConst(s, i - w + 1, i - 1)
         [] col = "acf2"   -> w >= 4 /\ NonConst(s, i - w + 3, i) /\ NonConst(s, i - w + 1, i - 2)

SingleWindowCols ==
    {"mean", "std", "mad", "q25", "q75", "iqr", "z_abs", "rz_abs", "vol_rolling", "acf1", "acf2"}

\* No missing input up to row i, at least four values per window, and every
\* full window up to row i holds both its lagged halves non-constant: all
\* the window statistics of rows w..i are well-posed
AllWellPosedUpTo(s, w, i) ==
    /\ w >= 4
    /\ i >= w
    /\ \A j \in 1..i : s[j].k = "num"
    /\ \A j \in w..i : NonConst(s, j - w + 3, j) /\ NonConst(s, j - w + 1, j - 2)

\* C1 as stated: every rolling column, anomaly_rate and mean_shift included,
\* is missing for rows 1..w-1 and defined from row w on when well-posed
C1_AsStated ==
    Returned =>
        \A i \in 1..Len(InS) :
            /\ \A col \in SingleWindowCols \cup {"anomaly_rate", "mean_shift"} :
                   i < cfg.w => OutF[i][col].k = "nan"
            /\ \A col \in SingleWindowCols :
                   WellPosed(col, InS, cfg.w, i) => OutF[i][col].k # "nan"
            /\ \A col \in {"anomaly_rate", "mean_shift"} :
                   AllWellPosedUpTo(InS, cfg.w, i) => OutF[i][col].k # "nan"

\* C1 (amended): the eleven single-window columns are missing for rows
\* 1..w-1 and defined from row w on for a well-posed window; anomaly_rate is
\* missing for rows 1..2w-2 and defined from row 2w-1 on when the z_abs cells
\* of its w rows are defined; mean_shift is missing for rows 1..w and defined
\* from row w+1 on when the means of rows i-1 and i are defined
C1_RollingWarmup ==
    Returned =>
        \A i \in 1..Len(InS) :
            /\ \A col \in SingleWindowCols :
                   /\ i < cfg.w => OutF[i][col].k = "nan"
                   /\ WellPosed(col, InS, cfg.w, i) => OutF[i][col].k # "nan"
            /\ i <= 2 * cfg.w - 2 => OutF[i].anomaly_rate.k = "nan"
            /\ (/\ cfg.w >= 1
                /\ i >= 2 * cfg.w - 1
                /\ \A j \in (i - cfg.w + 1)..i : OutF[j].z_abs.k # "nan")
                   => OutF[i].anomaly_rate.k = "num"
            /\ i <= cfg.w => OutF[i].mean_shift.k = "nan"
            /\ (InputsOK(InS, cfg.w, i) /\ InputsOK(InS, cfg.w, i - 1))
                   => OutF[i].mean_shift.k = "num"

\* A call with w >= 2 returned a frame where a well-posed row w has a z-score
\* but no anomaly rate yet, and a later row has every rolling column defined
C1_Witness ==
    /\ Returned
    /\ cfg.w >= 4
    /\ AllWellPosedUpTo(InS, cfg.w, cfg.w)
    /\ OutF[cfg.w].z_abs.k = "num"
    /\ OutF[cfg.w].anomaly_rate.k = "nan"
    /\ \E i \in 1..Len(InS) :
           \A col \in SingleWindowCols \cup {"anomaly_rate", "mean_shift"} :
               OutF[i][col].k = "num"

\* C2: a row whose window has mad = 0 has a missing rz_abs cell (never a
\* finite number, never infinity)
C2_ZeroMadIsMissing ==
    Returned =>
        \A i \in 1..Len(InS) :
            (OutF[i].mad.k = "num" /\ OutF[i].mad.n = 0) => OutF[i].rz_abs.k = "nan"

\* C8: lag24 / lag168 are the value 24 / 168 rows earlier and the deltas the
\* exact difference, when both values are defined; both are missing for the
\* first 24 / 168 rows
LagOK(i, k, lagc, deltac) ==
    /\ i <= k => lagc.k = "nan" /\ deltac.k = "nan"
    /\ (i > k /\ InS[i].k = "num" /\ InS[i - k].k = "num") =>
           /\ lagc.k = "num" /\ lagc.d = 1 /\ lagc.n = InS[i - k].n
           /\ deltac.k = "num" /\ deltac.n = (InS[i].n - InS[i - k].n) * deltac.d

C8_LagExact ==
    Returned =>
        \A i \in 1..Len(InS) :
            /\ LagOK(i, 24, OutF[i].lag24, OutF[i].lag24_delta)
            /\ LagOK(i, 168, OutF[i].lag168, OutF[i].lag168_delta)

\* A returned frame with a non-zero lag168_delta and a non-zero lag24_delta
C8_Witness ==
    /\ Returned
    /\ \E i \in 1..Len(InS) :
           /\ i > 168
           /\ OutF[i].lag168_delta.k = "num" /\ OutF[i].lag168_delta.n # 0
           /\ OutF[i].lag24_delta.k = "num" /\ OutF[i].lag24_delta.n # 0
           /\ OutF[i].lag24.n # OutF[i].lag168.n

\* The rows in the calendar bucket of row i, and the observed values there
SameBucket(i) ==
    {j \in 1..Len(resid.idx) :
        /\ (resid.idx[j] \div 24) % 7 = (resid.idx[i] \div 24) % 7
        /\ resid.idx[j] % 24 = resid.idx[i] % 24}

ZeroStdBucket(i) ==
    LET obs == {j \in SameBucket(i) : InS[j].k = "num"}
    IN  /\ Cardinality(obs) >= 2
        /\ \A j \in obs, k \in obs : InS[j].n = InS[k].n

PositiveStdBucket(i) ==
    \E j \in SameBucket(i), k \in SameBucket(i) :
        InS[j].k = "num" /\ InS[k].k = "num" /\ InS[j].n # InS[k].n

Done == control = "done"

OutRows == day_features

\* The 1-based row of timestamp t in the history slice
HistPos(t) == Cardinality({j \in 1..Len(df_hist.idx) : df_hist.idx[j] <= t})

\* The observed raw values of column c with day_start <= t < day_end
RawInDay(c) ==
    {j \in 1..Len(df.idx) :
        /\ df.idx[j] >= cfg.day * 24
        /\ df.idx[j] < cfg.day * 24 + 24
        /\ df.cols[c][j].k = "num"}

\* C3: an invalid configuration fails before any computation step has run
\* and never lets the call return
C3_FailFast ==
    InvalidCfg(cfg) => (steps_run = {} /\ control # "done")

\* C4 as stated: no column of a returned row is missing, the broadcast
\* day-level columns included
C4_AsStated ==
    Done =>
        /\ \A k \in 1..Len(OutRows) : \A c \in DOMAIN df.cols : \A f \in FeatureNames :
               OutRows[k].f[c][f].k # "nan"
        /\ \A c \in DOMAIN out_daycols :
               \A st \in DOMAIN out_daycols[c] :
                   out_daycols[c][st].k # "nan"

\* C4 (amended): no rolling feature column and no calendar column of a
\* returned row is missing; the day-level columns may be
C4_RowsComplete ==
    Done =>
        \A k \in 1..Len(OutRows) :
            /\ \A c \in DOMAIN df.cols : \A f \in FeatureNames :
                   OutRows[k].f[c][f].k # "nan"
            /\ OutRows[k].weekday \in 0..6
            /\ OutRows[k].hour \in 0..23

\* A returned table with rows, from a feature table whose target-day rows
\* were not all complete, carrying a missing day-level column
C4_Witness ==
    /\ Done
    /\ OutRows # <<>>
    /\ \E j \in 1..Len(X.idx) :
           /\ X.idx[j] >= cfg.day * 24 /\ X.idx[j] <= cfg.day * 24 + 24
           /\ \E c \in DOMAIN X.cols : \E f \in FeatureNames : X.cols[c][j][f].k = "nan"
    /\ \E c \in DOMAIN out_daycols :
           \E st \in DOMAIN out_daycols[c] :
               out_daycols[c][st].k = "nan"

\* C5: neg_share is the share of the observed raw values with timestamp in
\* [day_start, day_end) that are below zero
C5_NegShare ==
    (Done /\ OutRows # <<>>) =>
        \A c \in DOMAIN df.cols :
            LET day == RawInDay(c)
                neg == {j \in day : df.cols[c][j].n < 0}
                ns  == out_daycols[c].neg_share
            IN  day # {} =>
                    /\ ns.k = "num"
                    /\ ns.n * Cardinality(day) = Cardinality(neg) * ns.d

\* C6: at most 24 rows, every timestamp in [day_start, day_end), no hour twice
C6_OneRowPerHour ==
    Done =>
        /\ Len(OutRows) <= 24
        /\ \A k \in 1..Len(OutRows) :
               /\ out_index[k] >= cfg.day * 24
               /\ out_index[k] < cfg.day * 24 + 24
        /\ \A k \in 1..Len(OutRows), l \in 1..Len(OutRows) :
               k # l => OutRows[k].hour # OutRows[l].hour

\* Series b has no observed raw value in the day slice and series a has no
\* missing value at all
OneSeriesEmpty ==
    /\ DOMAIN df.cols = {"a", "b"}
    /\ \A j \in 1..Len(df.idx) :
           /\ df.cols["a"][j].k = "num"
           /\ (df.idx[j] >= cfg.day * 24 /\ df.idx[j] <= cfg.day * 24 + 24)
                  => df.cols["b"][j].k = "nan"

\* C7: with one series empty in the day and the other complete, the returned
\* table holds the target-day rows the complete series supports, and only
\* the empty series' day-level statistics are missing
C7_PerSeries ==
    (Done /\ OneSeriesEmpty) =>
        /\ \A j \in 1..Len(X.idx) :
               (/\ X.idx[j] >= cfg.day * 24
                /\ X.idx[j] < cfg.day * 24 + 24
                /\ \A f \in FeatureNames : X.cols["a"][j][f].k # "nan")
                   => \E k \in 1..Len(OutRows) : out_index[k] = X.idx[j]
        /\ OutRows # <<>> => out_daycols["a"].day_mean.k = "num"

\* C10: a returned row has at least max(168, 2w-2) rows before it in the
\* history slice; a history slice of at most 168 rows gives an empty table
\* without day-level columns
C10_Warmup ==
    Done =>
        /\ \A k \in 1..Len(OutRows) :
               /\ HistPos(out_index[k]) - 1 >= 168
               /\ HistPos(out_index[k]) - 1 >= 2 * cfg.w - 2
        /\ Len(df_hist.idx) <= 168 =>
               /\ OutRows = <<>>
               /\ out_daycols = <<>>

\* A returned table whose first row has exactly 2w-2 > 168 rows before it
C10_Witness ==
    /\ Done
    /\ OutRows # <<>>
    /\ 2 * cfg.w - 2 > 168
    /\ HistPos(out_index[1]) - 1 = 2 * cfg.w - 2
    /\ DOMAIN out_daycols = DOMAIN df.cols

=============================================================================
